---- MODULE Spec2Model ----
(***************************************************************************)
(* A model of the profile analysis pipeline of FacebookProfiler:           *)
(* ProfileAnalyzer (src/src/utils/profileAnalyzer.js) -- the chunker       *)
(* processJsonFiles, the retrying submission generateProfile and the       *)
(* multi-chunk driver analyzeProfile.                                      *)
(*                                                                         *)
(* Texts are modelled by strings; a file is modelled by its name, the      *)
(* kind of its (lower-cased) suffix, the length of its content and the     *)
(* length of its formatted content.  One analyzer object is modelled, its  *)
(* methods running as JavaScript runs them: every action is the code run   *)
(* between two awaits.                                                     *)
(***************************************************************************)
EXTENDS Integers, Sequences, FiniteSets, TLC

\* ------------------------------------------------------------ constants

\* this.MAX_CHUNK_SIZE, this.MAX_FILES_PER_CHUNK (constructor)
MAX_CHUNK_SIZE == 3500000
MAX_FILES_PER_CHUNK == 100
\* this.MAX_RETRIES, this.RETRY_DELAY (constructor)
MAX_RETRIES == 3
RETRY_DELAY == 2000
\* the truncation of .html content in processJsonFiles
HTML_LIMIT == 50000
\* '\n\n[Content truncated due to length...]'.length
TRUNC_NOTE_LEN == 38
\* '\n\n### FILE: '.length + '\n\n'.length
ENTRY_HEADER_LEN == 14

\* ------------------------------------------------------------ bounds

\* the largest number of files handed to one analyzeProfile call
MaxFiles == 3

\* ------------------------------------------------------------ values

\* JavaScript null and undefined (an absent field)
Null == "<null>"
Undefined == "<undefined>"

\* The files a call may be given.  len is content.length; fmt is the length
\* of JSON.stringify(JSON.parse(content), null, 2), or -1 when JSON.parse
\* throws on the content.
FilePool ==
  << [name |-> "a.json",    ext |-> "json",  len |-> 10,      fmt |-> 10],
     [name |-> "bad.json",  ext |-> "json",  len |-> 7,       fmt |-> -1],
     [name |-> "page.html", ext |-> "html",  len |-> 60000,   fmt |-> 0],
     [name |-> "big.txt",   ext |-> "other", len |-> 2000000, fmt |-> 0],
     [name |-> "big2.txt",  ext |-> "other", len |-> 1800000, fmt |-> 0],
     [name |-> "big3.txt",  ext |-> "other", len |-> 1900000, fmt |-> 0],
     [name |-> "huge.json", ext |-> "json",  len |-> 3600000, fmt |-> 3600000] >>

RECURSIVE DistinctSeqs(_, _)
\* the sequences of at most n distinct elements of S
DistinctSeqs(S, n) ==
  IF n = 0 THEN {<<>>}
  ELSE LET shorter == DistinctSeqs(S, n - 1)
       IN  shorter \cup
           { Append(p[1], p[2]) :
               p \in { q \in shorter \X S :
                         /\ Len(q[1]) = n - 1
                         /\ \A k \in 1..Len(q[1]) : q[1][k] # q[2] } }

\* the file sets (in Object.entries order) a call may be given
FileSets == DistinctSeqs({ FilePool[k] : k \in 1..Len(FilePool) }, MaxFiles)

\* ------------------------------------------------------------ processJsonFiles

\* (a[1]?.length || 0): the sort key of an entry
SortKey(f) == f.len

RECURSIVE InsertSortedBeforeEqual(_, _)
\* f put into the sorted sequence s before the elements of its own length
InsertSortedBeforeEqual(s, f) ==
  IF s = <<>> THEN <<f>>
  ELSE IF SortKey(s[Len(s)]) < SortKey(f) THEN Append(s, f)
  ELSE Append(InsertSortedBeforeEqual(SubSeq(s, 1, Len(s) - 1), f), s[Len(s)])

RECURSIVE InsertSorted(_, _)
\* f put into the sorted sequence s behind every element that is not longer
InsertSorted(s, f) ==
  IF s = <<>> THEN <<f>>
  ELSE IF SortKey(s[Len(s)]) <= SortKey(f) THEN Append(s, f)
  ELSE Append(InsertSorted(SubSeq(s, 1, Len(s) - 1), f), s[Len(s)])

RECURSIVE SortBySize(_)
\* Object.entries(jsonFiles).sort(...): a stable sort by content length
SortBySize(files) ==
  IF files = <<>> THEN <<>>
  ELSE InsertSorted(SortBySize(SubSeq(files, 1, Len(files) - 1)),
                    files[Len(files)])

\* whether formatting the file throws (JSON.parse on invalid JSON)
FormatThrows(f) == f.ext = "json" /\ f.fmt < 0

\* formattedContent.length
FormattedLen(f) ==
  IF f.ext = "json" THEN f.fmt
  ELSE IF f.ext = "html"
       THEN IF f.len > HTML_LIMIT THEN HTML_LIMIT + TRUNC_NOTE_LEN ELSE f.len
       ELSE f.len

\* fileEntry: the header line with the file name, then the formatted content
FileEntry(f) ==
  [name |-> f.name, len |-> ENTRY_HEADER_LEN + Len(f.name) + FormattedLen(f)]

RECURSIVE ChunkLen(_)
\* the length of a chunk, a concatenation of file entries
ChunkLen(chunk) ==
  IF chunk = <<>> THEN 0
  ELSE chunk[Len(chunk)].len + ChunkLen(SubSeq(chunk, 1, Len(chunk) - 1))

\* the iteration that tests the length of the chunk before the file is added
PackStepNoLookahead(st, f, maxChunkSize, maxFilesPerChunk) ==
  IF FormatThrows(f) THEN st
  ELSE LET fileEntry == FileEntry(f) IN
       IF \/ ChunkLen(st.currentChunk) > maxChunkSize
          \/ (st.filesInCurrentChunk >= maxFilesPerChunk
                /\ ChunkLen(st.currentChunk) > 0)
       THEN [chunks |-> Append(st.chunks, st.currentChunk),
             currentChunk |-> <<fileEntry>>,
             filesInCurrentChunk |-> 1]
       ELSE [chunks |-> st.chunks,
             currentChunk |-> Append(st.currentChunk, fileEntry),
             filesInCurrentChunk |-> st.filesInCurrentChunk + 1]

\* the iteration that goes on with the pushed chunk (+= for =)
PackStepNoReset(st, f, maxChunkSize, maxFilesPerChunk) ==
  IF FormatThrows(f) THEN st
  ELSE LET fileEntry == FileEntry(f) IN
       IF \/ ChunkLen(st.currentChunk) + fileEntry.len > maxChunkSize
          \/ (st.filesInCurrentChunk >= maxFilesPerChunk
                /\ ChunkLen(st.currentChunk) > 0)
       THEN [chunks |-> Append(st.chunks, st.currentChunk),
             currentChunk |-> Append(st.currentChunk, fileEntry),
             filesInCurrentChunk |-> 1]
       ELSE [chunks |-> st.chunks,
             currentChunk |-> Append(st.currentChunk, fileEntry),
             filesInCurrentChunk |-> st.filesInCurrentChunk + 1]

\* the iteration that tests the file count with > for >=
PackStepCountOffByOne(st, f, maxChunkSize, maxFilesPerChunk) ==
  IF FormatThrows(f) THEN st
  ELSE LET fileEntry == FileEntry(f) IN
       IF \/ ChunkLen(st.currentChunk) + fileEntry.len > maxChunkSize
          \/ (st.filesInCurrentChunk > maxFilesPerChunk
                /\ ChunkLen(st.currentChunk) > 0)
       THEN [chunks |-> Append(st.chunks, st.currentChunk),
             currentChunk |-> <<fileEntry>>,
             filesInCurrentChunk |-> 1]
       ELSE [chunks |-> st.chunks,
             currentChunk |-> Append(st.currentChunk, fileEntry),
             filesInCurrentChunk |-> st.filesInCurrentChunk + 1]

\* one iteration of the for loop over sortedEntries
PackStep(st, f, maxChunkSize, maxFilesPerChunk) ==
  IF FormatThrows(f) THEN st
  ELSE LET fileEntry == FileEntry(f) IN
       IF \/ ChunkLen(st.currentChunk) + fileEntry.len > maxChunkSize
          \/ (st.filesInCurrentChunk >= maxFilesPerChunk
                /\ ChunkLen(st.currentChunk) > 0)
       THEN [chunks |-> Append(st.chunks, st.currentChunk),
             currentChunk |-> <<fileEntry>>,
             filesInCurrentChunk |-> 1]
       ELSE [chunks |-> st.chunks,
             currentChunk |-> Append(st.currentChunk, fileEntry),
             filesInCurrentChunk |-> st.filesInCurrentChunk + 1]

RECURSIVE PackAll(_, _, _, _)
PackAll(entries, st, maxChunkSize, maxFilesPerChunk) ==
  IF entries = <<>> THEN st
  ELSE PackAll(Tail(entries),
               PackStep(st, Head(entries), maxChunkSize, maxFilesPerChunk),
               maxChunkSize, maxFilesPerChunk)

\* processJsonFiles pushing the last chunk without looking at its length
ProcessJsonFilesAlwaysPush(files, maxChunkSize, maxFilesPerChunk) ==
  LET st == PackAll(SortBySize(files),
                    [chunks |-> <<>>, currentChunk |-> <<>>,
                     filesInCurrentChunk |-> 0],
                    maxChunkSize, maxFilesPerChunk)
  IN  Append(st.chunks, st.currentChunk)

\* processJsonFiles with the analyzer's two limits as parameters
ProcessJsonFilesWith(files, maxChunkSize, maxFilesPerChunk) ==
  LET st == PackAll(SortBySize(files),
                    [chunks |-> <<>>, currentChunk |-> <<>>,
                     filesInCurrentChunk |-> 0],
                    maxChunkSize, maxFilesPerChunk)
  IN  IF ChunkLen(st.currentChunk) > 0
      THEN Append(st.chunks, st.currentChunk)
      ELSE st.chunks

processJsonFiles(files) ==
  ProcessJsonFilesWith(files, MAX_CHUNK_SIZE, MAX_FILES_PER_CHUNK)

\* ------------------------------------------------------------ state

VARIABLES
  jsonFiles,        \* the argument of the running analyzeProfile call
  prompt,           \* this.prompt
  pc,               \* where the analyzer is: idle, loading, await, sleep, done
  dataChunks,       \* analyzeProfile: dataChunks
  i,                \* analyzeProfile: the loop index of the multi-chunk loop
  combinedProfile,  \* analyzeProfile: combinedProfile
  failedChunks,     \* analyzeProfile: failedChunks
  chunkIndex,       \* generateProfile: chunkIndex
  retries,          \* generateProfile: retries
  lastError,        \* generateProfile: lastError
  inflight,         \* the requests sent to the endpoint and not yet answered
  result,           \* what analyzeProfile returned
  attempts,         \* history: the requests sent so far, per chunk index
  sleeps,           \* history: the delays slept in the current generateProfile
  lastResp,         \* history: the kind of the latest answer of the endpoint
  outcome,          \* history: how generateProfile ended, per chunk index
  lastThrown,       \* history: the error generateProfile threw in the latest step
  loads,            \* history: the loadPrompt calls made by the run
  chunkerIn,        \* processJsonFiles: the files and the analyzer's two limits
  chunkerOut,       \* processJsonFiles: the chunks returned
  matchIn,          \* matchesPattern: filePath and pattern
  matchOut,         \* matchesPattern: what it returned
  selIn,            \* selectDataForPrompt: promptName and extractedData
  selConfig,        \* selectDataForPrompt: what the fetch of the configuration gave
  selOut,           \* selectDataForPrompt: what it returned or threw
  proxyReq,         \* proxy: the request received
  proxyUp,          \* proxy: the request forwarded to the model API and its answer
  proxyRes,         \* proxy: the response given to the client
  loaderIn,         \* loadPrompt: promptName and this.prompt at the call
  loaderAt,         \* loadPrompt: the await it is at, and what the awaits gave
  loaderOut,        \* loadPrompt: what it returned or threw, and this.prompt then
  procPrompt,       \* ProcessingPage: currentPrompt
  procPending,      \* ProcessingPage: the selectDataForPrompt calls not yet resolved
  procSelection,    \* ProcessingPage: dataSelection
  pageProps,        \* ProfileAnalysisPage: the props jsonData and prompts
  pageState,        \* ProfileAnalysisPage: isAnalyzing, analysisResults, error, currentPrompt
  pageRuns,         \* ProfileAnalysisPage: the executions of runAllPrompts
  pageEnded         \* ProfileAnalysisPage: the execution that ended in the latest step

\* the variables of an analyzeProfile run
runVars == << jsonFiles, prompt, pc, dataChunks, i, combinedProfile, failedChunks,
              chunkIndex, retries, lastError, inflight, result, attempts, sleeps,
              lastResp, outcome, lastThrown, loads >>

\* the variables of the calls of processJsonFiles, matchesPattern and
\* selectDataForPrompt on their own
callVars == << chunkerIn, chunkerOut, matchIn, matchOut, selIn, selConfig, selOut >>

\* the variables of a request to a proxy
proxyVars == << proxyReq, proxyUp, proxyRes >>

\* the variables of a call of loadPrompt on its own
loaderVars == << loaderIn, loaderAt, loaderOut >>

\* the variables of the two pages
procVars == << procPrompt, procPending, procSelection >>
pageVars == << pageProps, pageState, pageRuns, pageEnded >>

\* the variables outside the analyzer and its helpers
siteVars == << proxyVars, loaderVars, procVars, pageVars >>

vars == << runVars, callVars, siteVars >>

\* ------------------------------------------------------------ loadPrompt

\* what the prompt store answers, and what the fetch of the local file gives
StoreAnswers == {"found", "notfound", "throws"}
LocalAnswers == {"ok", "empty", "fail"}

\* loadPrompt: the prompt of the store if it has one, else the local file;
\* an error of the store lookup or of the local fetch is rethrown
LoadPromptResult(store, local) ==
  IF store = "found" THEN [ok |-> TRUE, prompt |-> "store prompt", error |-> Null]
  ELSE IF store = "throws"
       THEN [ok |-> FALSE, prompt |-> Null, error |-> "prompt store error"]
  ELSE IF local = "fail"
       THEN [ok |-> FALSE, prompt |-> Null,
             error |-> "Failed to load fallback prompt"]
  ELSE [ok |-> TRUE,
        prompt |-> IF local = "empty" THEN "" ELSE "local prompt",
        error |-> Null]

\* !this.prompt
NoPrompt(p) == p = Null \/ p = ""

\* ------------------------------------------------------------ one request

\* what a request to the endpoint can come back with
Responses ==
  { "neterr",        \* fetch rejects
    "http500",       \* a response that is not ok
    "badjson",       \* ok, the body is not JSON
    "nochoices",     \* ok, no choices field
    "emptychoices",  \* ok, choices is []
    "nomessage",     \* ok, choices[0] has no message
    "nocontent",     \* ok, message.content is missing or null
    "emptytext",     \* ok, message.content is ""
    "text" }         \* ok, message.content is a non-empty string

\* the responses with a success status that lack the expected output
Malformed == {"nochoices", "emptychoices", "nomessage", "nocontent"}

\* the text the model generates for chunk idx
OutputOf(idx) == "output of chunk " \o ToString(idx + 1)

\* the try block without the read of generatedText.length: a response
\* without content is returned as undefined text
AttemptResultUnchecked(resp, idx) ==
  CASE resp = "neterr"  -> [ok |-> FALSE, val |-> "Failed to fetch"]
    [] resp = "http500" -> [ok |-> FALSE, val |-> "OpenRouter API error: Status: 500"]
    [] resp = "badjson" -> [ok |-> FALSE, val |-> "Unexpected token in JSON"]
    [] resp \in {"nochoices", "emptychoices"} ->
         [ok |-> FALSE, val |-> "No choices returned from OpenRouter API"]
    [] resp = "nomessage" ->
         [ok |-> FALSE, val |-> "Cannot read properties of undefined (reading 'content')"]
    [] resp = "nocontent" -> [ok |-> TRUE, val |-> Undefined]
    [] resp = "emptytext" -> [ok |-> TRUE, val |-> ""]
    [] resp = "text" -> [ok |-> TRUE, val |-> OutputOf(idx)]

\* the body of the try block for one response: the text returned, or the
\* message of the error thrown
AttemptResult(resp, idx) ==
  CASE resp = "neterr"  -> [ok |-> FALSE, val |-> "Failed to fetch"]
    [] resp = "http500" -> [ok |-> FALSE, val |-> "OpenRouter API error: Status: 500"]
    [] resp = "badjson" -> [ok |-> FALSE, val |-> "Unexpected token in JSON"]
    [] resp \in {"nochoices", "emptychoices"} ->
         [ok |-> FALSE, val |-> "No choices returned from OpenRouter API"]
    [] resp = "nomessage" ->
         [ok |-> FALSE, val |-> "Cannot read properties of undefined (reading 'content')"]
    [] resp = "nocontent" ->
         [ok |-> FALSE, val |-> "Cannot read properties of undefined (reading 'length')"]
    [] resp = "emptytext" -> [ok |-> TRUE, val |-> ""]
    [] resp = "text" -> [ok |-> TRUE, val |-> OutputOf(idx)]

\* the retry test with < for <=
RetryAllowedStrict(r) == r < MAX_RETRIES

\* retries <= this.MAX_RETRIES: whether another attempt is made
RetryAllowed(r) == r <= MAX_RETRIES

\* this.RETRY_DELAY * Math.pow(2, retries - 1)
BackoffDelay(r) == RETRY_DELAY * 2 ^ (r - 1)

\* the throw of lastError as it was before the failed attempt
ThrownErrorStale(last, current) == last

\* the error generateProfile throws when the retries are exhausted: the one
\* just caught (lastError = error; throw error)
ThrownError(last, current) == current

\* ------------------------------------------------------------ analyzeProfile

\* the combination without the branch of the last chunk
CombineFirstOnly(idx, n, current, text) ==
  IF idx = 0 THEN text ELSE current

\* the running result after chunk idx of n returned text
Combine(idx, n, current, text) ==
  IF idx = 0 THEN text
  ELSE IF idx = n - 1 THEN text
  ELSE current

\* a loop that steps by two
NextIndexSkip(idx) == idx + 2

\* the index the multi-chunk loop goes on with (i++)
NextIndex(idx) == idx + 1

\* a catch block that leaves the loop of n chunks
AfterCatchBreak(idx, n) == n

\* the index the loop goes on with after the catch block (continue)
AfterCatch(idx, n) == NextIndex(idx)

\* success: true whatever the chunks did
SuccessOfAlways(failed, profile) == TRUE

\* success: failedChunks.length === 0 || combinedProfile.length > 0
SuccessOf(failed, profile) == Len(failed) = 0 \/ Len(profile) > 0

\* the object returned at the end of the try block
Returned(files, chunks, failed, profile) ==
  [ success |-> SuccessOf(failed, profile),
    profile |-> profile,
    error   |-> Undefined,
    stats   |-> [ filesProcessed   |-> Len(files),
                  chunksProcessed  |-> Len(chunks),
                  chunksSuccessful |-> Len(chunks) - Len(failed),
                  chunksFailed     |-> failed,
                  profileLength    |-> Len(profile) ] ]

\* the object returned by the catch block
Caught(message) ==
  [ success |-> FALSE, profile |-> Null, error |-> message, stats |-> Undefined ]

\* st: pending, ok or failed; text: the text returned; load: whether the
\* failure was loadPrompt's
NoOutcome == [st |-> "pending", text |-> Null, load |-> FALSE]

\* processJsonFiles pushes at most one chunk per file and the last one
MaxChunks == MaxFiles + 1
ChunkIndices == 0..(MaxChunks - 1)

RECURSIVE PoolOrdered(_)
\* whether the names of the files come in the order of FilePool
PoolOrdered(files) ==
  \/ Len(files) <= 1
  \/ /\ PoolOrdered(Tail(files))
     /\ \E a, b \in 1..Len(FilePool) :
          a < b /\ FilePool[a] = files[1] /\ FilePool[b] = files[2]

\* the arguments analyzeProfile is called with
RunInputs == { files \in FileSets : PoolOrdered(files) }

\* a call that has not been made
NotCalled == [done |-> FALSE]

\* no request is made to a proxy
ProxyIdle ==
  /\ proxyReq = NotCalled
  /\ proxyUp = NotCalled
  /\ proxyRes = NotCalled

\* loadPrompt is not called on its own
LoaderIdle ==
  /\ loaderIn = NotCalled
  /\ loaderAt = NotCalled
  /\ loaderOut = NotCalled

\* the pages are not mounted
ProcIdle ==
  /\ procPrompt = Null
  /\ procPending = <<>>
  /\ procSelection = NotCalled
PageIdle ==
  /\ pageProps = NotCalled
  /\ pageState = NotCalled
  /\ pageRuns = <<>>
  /\ pageEnded = NotCalled

\* nothing happens outside the analyzer and its helpers
SiteIdle == ProxyIdle /\ LoaderIdle /\ ProcIdle /\ PageIdle

\* none of the calls on their own is made
CallsIdle ==
  /\ chunkerIn = NotCalled
  /\ chunkerOut = NotCalled
  /\ matchIn = NotCalled
  /\ matchOut = NotCalled
  /\ selIn = NotCalled
  /\ selConfig = NotCalled
  /\ selOut = NotCalled

\* the analyzer after its construction
RunInit ==
  /\ jsonFiles = <<>>
  /\ prompt = Null
  /\ pc = "idle"
  /\ dataChunks = <<>>
  /\ i = 0
  /\ combinedProfile = ""
  /\ failedChunks = <<>>
  /\ chunkIndex = 0
  /\ retries = 0
  /\ lastError = Null
  /\ inflight = 0
  /\ result = Undefined
  /\ attempts = [k \in ChunkIndices |-> 0]
  /\ sleeps = <<>>
  /\ lastResp = Null
  /\ outcome = [k \in ChunkIndices |-> NoOutcome]
  /\ lastThrown = Null
  /\ loads = 0

Init == RunInit /\ CallsIdle /\ SiteIdle

\* generateProfile(dataChunks[idx], ...) up to its first await: the prompt is
\* loaded if there is none, else the first request is sent.  att, ld and inf
\* are the attempts, the loads and the requests in flight at the call.
BeginGenerate(idx, att, ld, inf) ==
  /\ chunkIndex' = idx
  /\ retries' = 0
  /\ lastError' = Null
  /\ sleeps' = <<>>
  /\ IF NoPrompt(prompt)
     THEN /\ pc' = "loading"
          /\ loads' = ld + 1
          /\ attempts' = att
          /\ inflight' = inf
     ELSE /\ pc' = "await"
          /\ loads' = ld
          /\ attempts' = [att EXCEPT ![idx] = @ + 1]
          /\ inflight' = inf + 1

\* generateProfile has returned val (ok) or thrown val (~ok) to analyzeProfile,
\* which goes on to its next await or to its return.  r, le and sl are the
\* retries, lastError and sleeps generateProfile ended with, inf the requests
\* in flight; byLoad tells a throw of loadPrompt.
Settle(ok, val, r, le, sl, inf, byLoad) ==
  LET n == Len(dataChunks)
      out == [outcome EXCEPT ![chunkIndex] =
                [st |-> IF ok THEN "ok" ELSE "failed",
                 text |-> IF ok THEN val ELSE Null,
                 load |-> byLoad]]
      ended == /\ pc' = "done"
               /\ chunkIndex' = chunkIndex
               /\ retries' = r
               /\ lastError' = le
               /\ sleeps' = sl
               /\ inflight' = inf
               /\ UNCHANGED << attempts, loads >>
  IN
  /\ outcome' = out
  /\ lastThrown' = IF ok THEN Null ELSE val
  /\ IF n = 1
     THEN \* combinedProfile = await this.generateProfile(dataChunks[0])
          /\ UNCHANGED << i, failedChunks >>
          /\ IF ok
             THEN /\ combinedProfile' = val
                  /\ result' = Returned(jsonFiles, dataChunks, failedChunks, val)
             ELSE /\ combinedProfile' = combinedProfile
                  /\ result' = Caught(val)
          /\ ended
     ELSE \* the body of the for loop, its try and its catch
          LET cp == IF ok THEN Combine(i, n, combinedProfile, val)
                    ELSE combinedProfile
              fc == IF ok THEN failedChunks ELSE Append(failedChunks, i + 1)
              nxt == IF ok THEN NextIndex(i) ELSE AfterCatch(i, n)
          IN  /\ combinedProfile' = cp
              /\ failedChunks' = fc
              /\ i' = nxt
              /\ IF nxt < n
                 THEN /\ BeginGenerate(nxt, attempts, loads, inf)
                      /\ result' = result
                 ELSE /\ result' = Returned(jsonFiles, dataChunks, fc, cp)
                      /\ ended

\* analyzeProfile(jsonFiles) is called on the idle analyzer
AnalyzeProfile ==
  /\ UNCHANGED << callVars, siteVars >>
  /\ pc = "idle"
  /\ \E files \in RunInputs :
       LET chunks == processJsonFiles(files) IN
       /\ jsonFiles' = files
       /\ dataChunks' = chunks
       /\ i' = 0
       /\ combinedProfile' = ""
       /\ failedChunks' = <<>>
       /\ lastResp' = Null
       /\ outcome' = [k \in ChunkIndices |-> NoOutcome]
       /\ lastThrown' = Null
       /\ IF Len(chunks) = 0
          THEN /\ result' = Caught("No valid data chunks to process")
               /\ pc' = "done"
               /\ attempts' = [k \in ChunkIndices |-> 0]
               /\ loads' = 0
               /\ UNCHANGED << chunkIndex, retries, lastError, sleeps, inflight >>
          ELSE /\ BeginGenerate(0, [k \in ChunkIndices |-> 0], 0, inflight)
               /\ result' = Undefined
  /\ UNCHANGED prompt

\* await this.loadPrompt() inside generateProfile settles
LoadPromptDone ==
  /\ UNCHANGED << callVars, siteVars >>
  /\ pc = "loading"
  /\ \E store \in StoreAnswers, local \in LocalAnswers :
       LET lr == LoadPromptResult(store, local) IN
       IF lr.ok
       THEN /\ prompt' = lr.prompt
            /\ pc' = "await"
            /\ attempts' = [attempts EXCEPT ![chunkIndex] = @ + 1]
            /\ inflight' = inflight + 1
            /\ lastThrown' = Null
            /\ UNCHANGED << i, combinedProfile, failedChunks, chunkIndex, retries,
                            lastError, result, sleeps, outcome, loads >>
       ELSE /\ prompt' = prompt
            /\ Settle(FALSE, lr.error, retries, lastError, sleeps, inflight, TRUE)
  /\ UNCHANGED << jsonFiles, dataChunks, lastResp >>

\* the endpoint answers the request in flight: the rest of the try block, the
\* catch block, and what follows up to the next await
Response ==
  /\ UNCHANGED << callVars, siteVars >>
  /\ pc = "await"
  /\ \E resp \in Responses :
       LET res == AttemptResult(resp, chunkIndex) IN
       /\ lastResp' = resp
       /\ IF res.ok
          THEN Settle(TRUE, res.val, retries, lastError, sleeps, inflight - 1,
                      FALSE)
          ELSE LET r == retries + 1 IN
               IF RetryAllowed(r)
               THEN /\ retries' = r
                    /\ lastError' = res.val
                    /\ sleeps' = Append(sleeps, BackoffDelay(r))
                    /\ pc' = "sleep"
                    /\ inflight' = inflight - 1
                    /\ lastThrown' = Null
                    /\ UNCHANGED << i, combinedProfile, failedChunks, chunkIndex,
                                    result, attempts, outcome, loads >>
               ELSE Settle(FALSE, ThrownError(lastError, res.val), r, res.val,
                           sleeps, inflight - 1, FALSE)
  /\ UNCHANGED << jsonFiles, dataChunks, prompt >>

\* await this.sleep(delay) is over: the while loop sends the next request
Wake ==
  /\ UNCHANGED << callVars, siteVars >>
  /\ pc = "sleep"
  /\ RetryAllowed(retries)
  /\ pc' = "await"
  /\ attempts' = [attempts EXCEPT ![chunkIndex] = @ + 1]
  /\ inflight' = inflight + 1
  /\ lastThrown' = Null
  /\ UNCHANGED << jsonFiles, prompt, dataChunks, i, combinedProfile, failedChunks,
                  chunkIndex, retries, lastError, result, sleeps, lastResp,
                  outcome, loads >>

\* the page calls analyzer.loadPrompt(name) before it calls analyzeProfile
PageLoadPrompt ==
  /\ UNCHANGED << callVars, siteVars >>
  /\ pc = "idle"
  /\ \E store \in StoreAnswers, local \in LocalAnswers :
       LET lr == LoadPromptResult(store, local) IN
       prompt' = IF lr.ok THEN lr.prompt ELSE prompt
  /\ UNCHANGED << jsonFiles, pc, dataChunks, i, combinedProfile, failedChunks,
                  chunkIndex, retries, lastError, inflight, result, attempts,
                  sleeps, lastResp, outcome, lastThrown, loads >>

\* the caller has the result; the frames of the call are gone
ReturnToCaller ==
  /\ UNCHANGED << callVars, siteVars >>
  /\ pc = "done"
  /\ pc' = "idle"
  /\ jsonFiles' = <<>>
  /\ dataChunks' = <<>>
  /\ i' = 0
  /\ combinedProfile' = ""
  /\ failedChunks' = <<>>
  /\ chunkIndex' = 0
  /\ retries' = 0
  /\ lastError' = Null
  /\ result' = Undefined
  /\ attempts' = [k \in ChunkIndices |-> 0]
  /\ sleeps' = <<>>
  /\ lastResp' = Null
  /\ outcome' = [k \in ChunkIndices |-> NoOutcome]
  /\ lastThrown' = Null
  /\ loads' = 0
  /\ UNCHANGED << prompt, inflight >>

Next ==
  \/ AnalyzeProfile
  \/ LoadPromptDone
  \/ Response
  \/ Wake
  \/ PageLoadPrompt
  \/ ReturnToCaller

Spec == Init /\ [][Next]_vars

\* ------------------------------------------------------------ processJsonFiles alone

\* the second file of the scenario {a.json: ten 1s, b.json: ten 2s}
ScenarioFileB == [name |-> "b.json", ext |-> "json", len |-> 10, fmt |-> 10]

\* the values of this.MAX_CHUNK_SIZE and this.MAX_FILES_PER_CHUNK a call is
\* made with: the constructor's, and small ones that the small files reach
ChunkSizeChoices == {15, 40, 100, MAX_CHUNK_SIZE}
FileCountChoices == {1, 2, 10, MAX_FILES_PER_CHUNK}

\* the arguments and limits processJsonFiles is called with
ChunkerInputs ==
  [ files : DistinctSeqs({ FilePool[k] : k \in 1..Len(FilePool) }
                           \cup {ScenarioFileB}, MaxFiles),
    maxChunkSize : ChunkSizeChoices,
    maxFilesPerChunk : FileCountChoices ]

ChunkerInit ==
  /\ RunInit
  /\ SiteIdle
  /\ chunkerIn \in ChunkerInputs
  /\ chunkerOut = NotCalled
  /\ matchIn = NotCalled
  /\ matchOut = NotCalled
  /\ selIn = NotCalled
  /\ selConfig = NotCalled
  /\ selOut = NotCalled

\* processJsonFiles(jsonFiles) is called and returns
ProcessJsonFilesCall ==
  /\ ~chunkerOut.done
  /\ chunkerOut' = [done |-> TRUE,
                    chunks |-> ProcessJsonFilesWith(chunkerIn.files,
                                                    chunkerIn.maxChunkSize,
                                                    chunkerIn.maxFilesPerChunk)]
  /\ UNCHANGED << runVars, chunkerIn, matchIn, matchOut, selIn, selConfig, selOut, siteVars >>

ChunkerNext == ProcessJsonFilesCall

ChunkerSpec == ChunkerInit /\ [][ChunkerNext]_vars

\* ------------------------------------------------------------ properties

\* the call has returned and its result is there to read
Done == pc = "done"
NumChunks == Len(dataChunks)
Indices == 0..(NumChunks - 1)
MultiChunk == NumChunks > 1
Succeeded == { k \in Indices : outcome[k].st = "ok" }
Failed == { k \in Indices : outcome[k].st = "failed" }
LastOf(S) == CHOOSE k \in S : \A j \in S : j <= k
\* the 1-based indices of the failed chunks, in increasing order
RECURSIVE FailedUpTo(_)
FailedUpTo(k) ==
  IF k < 0 THEN <<>>
  ELSE IF k \in Failed THEN Append(FailedUpTo(k - 1), k + 1)
  ELSE FailedUpTo(k - 1)

\* C1: in a multi-chunk run the returned profile is the output of the last
\* chunk whose submission succeeded, whatever chunks succeeded and failed.
C1_LastSuccessfulChunkWins ==
  (Done /\ MultiChunk /\ Succeeded # {})
    => result.profile = outcome[LastOf(Succeeded)].text

\* C2: a run in which some chunk submission returned non-empty text reports
\* success = true.
C2_SuccessIfAnyChunkSucceeded ==
  (Done /\ \E k \in Succeeded : outcome[k].text # "")
    => result.success = TRUE

\* C3: a result with success = false carries the message of the last
\* underlying failure in its error field: the no-data message, the error of
\* the single chunk, or the error of the last chunk when all chunks failed.
C3_FailureCarriesLastError ==
  (Done /\ result.success = FALSE /\ Succeeded = {})
    => result.error =
         IF NumChunks = 0 THEN "No valid data chunks to process"
         ELSE lastThrown

\* what C4 says of the profile and of the stats of a run whose last chunk
\* succeeded
C4_ProfileAndStats ==
  /\ result.profile = outcome[NumChunks - 1].text
  /\ result.stats.chunksFailed = FailedUpTo(NumChunks - 1)
  /\ result.stats.chunksSuccessful + Len(result.stats.chunksFailed)
       = result.stats.chunksProcessed
  /\ result.stats.chunksProcessed = NumChunks

\* C4 as claimed: a multi-chunk run whose last chunk succeeds has success =
\* true, the last chunk's output as profile, the failed chunks' 1-based
\* indices in increasing order in chunksFailed, and chunksSuccessful +
\* length(chunksFailed) = chunksProcessed.
C4_LastChunkSucceeds_Original ==
  (Done /\ MultiChunk /\ (NumChunks - 1) \in Succeeded)
    => (result.success = TRUE /\ C4_ProfileAndStats)

\* C4 as amended: the same, with success = true only claimed when the last
\* chunk's output is non-empty or no chunk failed; with an empty last output
\* and an earlier failed chunk success is false.
C4_LastChunkSucceeds ==
  (Done /\ MultiChunk /\ (NumChunks - 1) \in Succeeded)
    => /\ C4_ProfileAndStats
       /\ result.success
            = (outcome[NumChunks - 1].text # "" \/ Failed = {})

\* a run of three chunks whose second chunk failed and whose third returned
\* text
C4_Witness ==
  /\ Done /\ NumChunks = 3
  /\ Failed = {1}
  /\ outcome[2].text = OutputOf(2)
  /\ result.success = TRUE

\* what C5 says of the failed chunks: each failed chunk's 1-based index is in
\* failedChunks exactly once, and every chunk was handed to generateProfile
C5_AllHandledAndRecorded ==
  /\ \A k \in Indices : outcome[k].st # "pending"
  /\ failedChunks = FailedUpTo(NumChunks - 1)
  /\ result.stats.chunksFailed = failedChunks

\* C5 as claimed: in a multi-chunk run a failed chunk never aborts the run:
\* at least one request is sent for every chunk 0..N-1, and each failed
\* chunk's index is recorded exactly once.
C5_EveryChunkSubmitted_Original ==
  (Done /\ MultiChunk)
    => /\ C5_AllHandledAndRecorded
       /\ \A k \in Indices : attempts[k] >= 1

\* C5 as amended: every chunk is handed to generateProfile and each failed
\* chunk's index is recorded exactly once; a request is sent for every chunk
\* except those for which no prompt was loaded and loading it failed.
C5_EveryChunkSubmitted ==
  (Done /\ MultiChunk)
    => /\ C5_AllHandledAndRecorded
       /\ \A k \in Indices :
            (attempts[k] = 0)
              <=> (k \in Failed /\ outcome[k].load)

\* a run of three chunks whose first chunk failed after all its retries and
\* whose other chunks were submitted all the same
C5_Witness ==
  /\ Done /\ NumChunks = 3
  /\ 0 \in Failed /\ attempts[0] = MAX_RETRIES + 1
  /\ attempts[1] >= 1 /\ attempts[2] >= 1
  /\ failedChunks = <<1, 3>>

\* C6: chunks are submitted in index order and one at a time: a request for
\* a chunk is sent only when every earlier chunk's submission has returned or
\* given up, no later chunk has a request while the current one is pending,
\* and at most one request is in flight.
C6_SequentialSubmission ==
  /\ inflight <= 1
  /\ inflight = 1 => pc = "await"
  /\ \A k \in ChunkIndices :
       attempts[k] > 0
         => /\ k \in Indices
            /\ \A j \in 0..(k - 1) : attempts[j] > 0 \/ j \in Failed
            /\ \A j \in 0..(k - 1) : outcome[j].st # "pending"
  /\ pc \in {"loading", "await", "sleep"}
       => /\ outcome[chunkIndex].st = "pending"
          /\ \A k \in ChunkIndices : k > chunkIndex => attempts[k] = 0

\* the third chunk's request is in flight after the first two were settled
C6_Witness ==
  /\ pc = "await" /\ inflight = 1 /\ chunkIndex = 2
  /\ outcome[0].st = "ok" /\ outcome[1].st = "failed"
  /\ attempts[1] = MAX_RETRIES + 1

\* the delays generateProfile sleeps before its retries 1, 2 and 3
C7_Delays == << 2000, 4000, 8000 >>

\* C7, the states: at most 4 requests per chunk; retry k is preceded by a
\* sleep of RETRY_DELAY * 2^(k-1).
C7_Bounded ==
  /\ \A k \in ChunkIndices : attempts[k] <= 4
  /\ sleeps = SubSeq(C7_Delays, 1, Len(sleeps))
  /\ pc = "await" => attempts[chunkIndex] = Len(sleeps) + 1
  /\ pc = "sleep" => attempts[chunkIndex] = Len(sleeps)
  /\ \A k \in Failed : ~outcome[k].load => attempts[k] = 4

\* C7, the steps: an answer with text ends the call at once; a failed attempt
\* before the 4th is followed by the sleep; the 4th failure is followed by no
\* sleep and throws the error of that attempt.
C7_Step ==
  pc = "await" =>
    LET k == chunkIndex IN
    IF lastResp' \in {"text", "emptytext"}
    THEN /\ outcome'[k].st = "ok"
         /\ attempts'[k] = attempts[k]
    ELSE IF attempts[k] < 4
    THEN /\ pc' = "sleep"
         /\ outcome'[k].st = "pending"
         /\ sleeps' = Append(sleeps, C7_Delays[attempts[k]])
    ELSE /\ pc' # "sleep"
         /\ sleeps = C7_Delays
         /\ attempts'[k] = 4
         /\ outcome'[k].st = "failed"
         /\ lastThrown' = AttemptResult(lastResp', k).val

\* C7: generateProfile makes at most 4 request attempts per chunk; when all
\* fail it makes exactly 4, sleeps 2 s, 4 s and 8 s before the retries, does
\* not sleep after the 4th failure and throws the last attempt's error; a
\* successful attempt returns at once.
C7_RetryPolicy == []C7_Bounded /\ [][C7_Step]_vars

\* a chunk has failed after 4 requests and the three sleeps
C7_Witness ==
  /\ Done /\ sleeps = C7_Delays
  /\ \E k \in Failed : attempts[k] = 4 /\ k = chunkIndex

\* the step on a success-status response without choices, with empty choices
\* or without message.content: not a result, but a failed attempt that uses
\* up one retry and is followed by the backoff sleep, or, on the last
\* attempt, by the failure of the chunk
C8_Step ==
  (pc = "await" /\ lastResp' \in Malformed) =>
    LET k == chunkIndex IN
    /\ outcome'[k].st # "ok"
    /\ IF retries < MAX_RETRIES
       THEN /\ retries' = retries + 1
            /\ pc' = "sleep"
            /\ sleeps' = Append(sleeps, C7_Delays[retries + 1])
            /\ lastError' = AttemptResult(lastResp', k).val
       ELSE /\ outcome'[k].st = "failed"
            /\ lastThrown' = AttemptResult(lastResp', k).val

\* C8: every step that consumes a malformed success response counts it as a
\* failed attempt (retry and backoff, or failure of the chunk); it is never
\* returned as the chunk's result.
C8_MalformedIsRetried == [][C8_Step]_vars

\* the analyzer sleeps before a retry after a response without content
C8_Witness ==
  /\ pc = "sleep" /\ lastResp = "nocontent" /\ retries = 2
  /\ sleeps = << 2000, 4000 >>

\* C9: a run of exactly one chunk whose submission failed returns success =
\* false, profile null and the error of the last attempt; it returns, it
\* does not throw.
C9_SingleChunkFailure ==
  (Done /\ NumChunks = 1 /\ 0 \in Failed)
    => /\ result = [success |-> FALSE, profile |-> Null,
                    error |-> lastThrown, stats |-> Undefined]
       /\ attempts[0] = MAX_RETRIES + 1
            => result.error = AttemptResult(lastResp, 0).val

\* a one-chunk run has failed after 4 requests
C9_Witness ==
  /\ Done /\ NumChunks = 1 /\ 0 \in Failed
  /\ attempts[0] = MAX_RETRIES + 1
  /\ result.success = FALSE

\* C10: for an empty file set processJsonFiles returns no chunk, and
\* analyzeProfile returns success = false with the no-data message, without
\* loading a prompt and without sending a request.
C10_EmptyInput ==
  /\ processJsonFiles(<<>>) = <<>>
  /\ (Done /\ jsonFiles = <<>>)
       => /\ dataChunks = <<>>
          /\ result.success = FALSE
          /\ result.error = "No valid data chunks to process"
          /\ loads = 0
          /\ inflight = 0
          /\ \A k \in ChunkIndices : attempts[k] = 0

\* a call with no file has returned
C10_Witness ==
  /\ Done /\ jsonFiles = <<>>
  /\ result.success = FALSE

\* ------------------------------------------------------------ properties of processJsonFiles

\* the files of the call whose formatting does not throw
Formattable == { k \in 1..Len(chunkerIn.files) : ~FormatThrows(chunkerIn.files[k]) }
\* the places <<chunk, position>> of the entries of the chunks returned
Places ==
  { pl \in (1..Len(chunkerOut.chunks)) \X (1..MaxFiles) :
      pl[2] <= Len(chunkerOut.chunks[pl[1]]) }
EntryAt(pl) == chunkerOut.chunks[pl[1]][pl[2]]
PlacesOf(name) == { pl \in Places : EntryAt(pl).name = name }

\* C11: the paths of the entries over all chunks are exactly the input
\* paths, each once: no file is dropped (not even a .json file that is not
\* valid JSON) and none is duplicated.
C11_EveryFileInExactlyOneChunk ==
  chunkerOut.done =>
    /\ \A k \in 1..Len(chunkerIn.files) :
         Cardinality(PlacesOf(chunkerIn.files[k].name)) = 1
    /\ \A pl \in Places :
         \E k \in 1..Len(chunkerIn.files) : chunkerIn.files[k].name = EntryAt(pl).name

\* C12: the entry of every formatted file is whole in one place of one chunk,
\* and a file whose entry alone is longer than MAX_CHUNK_SIZE is neither
\* split nor dropped: its entry is a chunk of its own.
C12_EntriesWholeOversizedAlone ==
  chunkerOut.done =>
    \A k \in Formattable :
      LET f == chunkerIn.files[k] IN
      /\ Cardinality(PlacesOf(f.name)) = 1
      /\ \A pl \in PlacesOf(f.name) :
           /\ EntryAt(pl) = FileEntry(f)
           /\ FileEntry(f).len > chunkerIn.maxChunkSize
                => chunkerOut.chunks[pl[1]] = << FileEntry(f) >>

\* an oversized file was chunked with the constructor's limits together with
\* two files that share a chunk
C12_Witness ==
  /\ chunkerOut.done
  /\ chunkerIn.maxChunkSize = MAX_CHUNK_SIZE
  /\ Len(chunkerIn.files) = 3
  /\ \E c \in 1..Len(chunkerOut.chunks) :
       /\ Len(chunkerOut.chunks[c]) = 1
       /\ chunkerOut.chunks[c][1].name = "huge.json"
       /\ chunkerOut.chunks[c][1].len > MAX_CHUNK_SIZE
  /\ \E c \in 1..Len(chunkerOut.chunks) : Len(chunkerOut.chunks[c]) = 2

\* C13: when no two file entries fit together within the chunk budget, as
\* for {a.json: ten 1s, b.json: ten 2s} with a budget of 15, there is exactly
\* one chunk per input file and each chunk holds exactly one file.
C13_OneChunkPerFile ==
  ( /\ chunkerOut.done
    /\ Formattable = 1..Len(chunkerIn.files)
    /\ \A j, k \in Formattable :
         j # k => FileEntry(chunkerIn.files[j]).len
                    + FileEntry(chunkerIn.files[k]).len > chunkerIn.maxChunkSize )
    => /\ Len(chunkerOut.chunks) = Len(chunkerIn.files)
       /\ \A c \in 1..Len(chunkerOut.chunks) : Len(chunkerOut.chunks[c]) = 1

\* C14: every chunk is at most MAX_CHUNK_SIZE long, except a chunk of exactly
\* one entry that is longer than MAX_CHUNK_SIZE by itself.
C14_ChunkWithinBudget ==
  chunkerOut.done =>
    \A c \in 1..Len(chunkerOut.chunks) :
      LET chunk == chunkerOut.chunks[c] IN
      \/ ChunkLen(chunk) <= chunkerIn.maxChunkSize
      \/ Len(chunk) = 1 /\ chunk[1].len > chunkerIn.maxChunkSize

\* a chunk of two files is followed by a chunk that did not fit into it
C14_Witness ==
  /\ chunkerOut.done
  /\ chunkerIn.maxFilesPerChunk = MAX_FILES_PER_CHUNK
  /\ Len(chunkerOut.chunks) = 2
  /\ Len(chunkerOut.chunks[1]) = 2
  /\ ChunkLen(chunkerOut.chunks[1]) + chunkerOut.chunks[2][1].len
       > chunkerIn.maxChunkSize
  /\ ChunkLen(chunkerOut.chunks[2]) <= chunkerIn.maxChunkSize

\* C15: no chunk holds more than MAX_FILES_PER_CHUNK file entries.
C15_ChunkWithinFileCount ==
  chunkerOut.done =>
    \A c \in 1..Len(chunkerOut.chunks) :
      Len(chunkerOut.chunks[c]) <= chunkerIn.maxFilesPerChunk

\* three files that fit one chunk by their length were split by the limit of
\* two files
C15_Witness ==
  /\ chunkerOut.done
  /\ chunkerIn.maxFilesPerChunk = 2
  /\ Len(chunkerIn.files) = 3
  /\ Len(chunkerOut.chunks) = 2
  /\ Len(chunkerOut.chunks[1]) = 2
  /\ ChunkLen(chunkerOut.chunks[1]) + ChunkLen(chunkerOut.chunks[2])
       <= chunkerIn.maxChunkSize

\* ------------------------------------------------------------ matchesPattern

UpperCase == "ABCDEFGHIJKLMNOPQRSTUVWXYZ"
LowerCase == "abcdefghijklmnopqrstuvwxyz"

\* one character of path.replace(/\\/g, '/').toLowerCase()
NormalizeChar(c) ==
  IF c = "\\" THEN "/"
  ELSE IF \E k \in 1..Len(UpperCase) : SubSeq(UpperCase, k, k) = c
       THEN LET k == CHOOSE j \in 1..Len(UpperCase) : SubSeq(UpperCase, j, j) = c
            IN SubSeq(LowerCase, k, k)
       ELSE c

RECURSIVE normalizePath(_)
normalizePath(path) ==
  IF Len(path) = 0 THEN ""
  ELSE NormalizeChar(SubSeq(path, 1, 1)) \o normalizePath(SubSeq(path, 2, Len(path)))

\* String.prototype.endsWith, startsWith, includes, indexOf
EndsWith(str, suffix) ==
  /\ Len(suffix) <= Len(str)
  /\ SubSeq(str, Len(str) - Len(suffix) + 1, Len(str)) = suffix
StartsWith(str, prefix) ==
  /\ Len(prefix) <= Len(str)
  /\ SubSeq(str, 1, Len(prefix)) = prefix
Occurrences(str, sub) ==
  { k \in 1..(Len(str) - Len(sub) + 1) : SubSeq(str, k, k + Len(sub) - 1) = sub }
Includes(str, sub) == Occurrences(str, sub) # {}

\* str.replace(sub, by) with a string for sub: the first occurrence only
ReplaceFirst(str, sub, by) ==
  IF ~Includes(str, sub) THEN str
  ELSE LET k == CHOOSE j \in Occurrences(str, sub) :
                  \A m \in Occurrences(str, sub) : j <= m
       IN SubSeq(str, 1, k - 1) \o by \o SubSeq(str, k + Len(sub), Len(str))

matchesPattern(filePath, pattern) ==
  LET normalizedFile == normalizePath(filePath)
      normalizedPattern == normalizePath(pattern)
  IN IF EndsWith(normalizedPattern, ".json")
     THEN LET basePattern == ReplaceFirst(normalizedPattern, ".json", "")
              jsonMatch == \/ normalizedFile = normalizedPattern
                           \/ EndsWith(normalizedFile, "/" \o normalizedPattern)
              htmlMatch == \/ normalizedFile = basePattern \o ".html"
                           \/ EndsWith(normalizedFile, "/" \o basePattern \o ".html")
          IN jsonMatch \/ htmlMatch
     ELSE \/ StartsWith(normalizedFile, normalizedPattern \o "/")
          \/ Includes(normalizedFile, "/" \o normalizedPattern \o "/")

\* the paths and the patterns matchesPattern is called with
PathPool ==
  { "data/ads_information/prefs.json", "data/other/x.json",
    "ads_information/prefs.html", "Data\\Ads_Information\\Prefs.JSON",
    "x.json", "x.html", "dir/x.html", "a.json.d/x.json", "a.json.d/x.html",
    "a.d/x.json", "my_ads_information/p.json", "/x", "a//b", "other" }
PatternPool ==
  { "ads_information", "Ads_Information", "other", "data/other", "",
    "x.json", "X.JSON", "dir/x.json", "prefs.json", "a.json.d/x.json" }

MatcherInit ==
  /\ RunInit
  /\ SiteIdle
  /\ matchIn \in [ filePath : PathPool, pattern : PatternPool ]
  /\ matchOut = NotCalled
  /\ chunkerIn = NotCalled
  /\ chunkerOut = NotCalled
  /\ selIn = NotCalled
  /\ selConfig = NotCalled
  /\ selOut = NotCalled

\* matchesPattern(filePath, pattern) is called and returns
MatchesPatternCall ==
  /\ ~matchOut.done
  /\ matchOut' = [done |-> TRUE,
                  result |-> matchesPattern(matchIn.filePath, matchIn.pattern)]
  /\ UNCHANGED << runVars, chunkerIn, chunkerOut, matchIn, selIn, selConfig, selOut, siteVars >>

MatcherNext == MatchesPatternCall

MatcherSpec == MatcherInit /\ [][MatcherNext]_vars

\* the path is the pattern, or ends with / and the pattern, with only the
\* final .json of the pattern replaced by .html
HtmlTwin(path, pattern) ==
  LET p == normalizePath(pattern)
      twin == SubSeq(p, 1, Len(p) - 5) \o ".html"
  IN /\ EndsWith(p, ".json")
     /\ \/ normalizePath(path) = twin
        \/ EndsWith(normalizePath(path), "/" \o twin)

\* C20: for every pattern that ends in .json, also one that holds the text
\* .json earlier in a folder or file name, a path that equals the pattern (or
\* ends with / and the pattern) with only the final .json replaced by .html
\* is matched.
C20_JsonPatternMatchesHtmlTwin ==
  (matchOut.done /\ HtmlTwin(matchIn.filePath, matchIn.pattern)) => matchOut.result

\* ------------------------------------------------------------ selectDataForPrompt

\* extractedData is an object: a sequence of [path, content] with distinct
\* paths, in the order of Object.keys
ExtractedPool ==
  { [path |-> "data/ads_information/prefs.json", content |-> "{\"ads\":1}"],
    [path |-> "data/other/x.json", content |-> "[1,2]"],
    [path |-> "ads_information/empty.json", content |-> ""],
    [path |-> "data/ads_information/prefs.html", content |-> "<html>"],
    [path |-> "Data\\Other\\Y.JSON", content |-> "{}"] }
ExtractedSets == DistinctSeqs(ExtractedPool, MaxFiles)
PromptNames == { "minimal", "full", "nodata", "emptydata", "absent" }

KeysOf(obj) == [ k \in 1..Len(obj) |-> obj[k].path ]
HasKey(obj, key) == \E k \in 1..Len(obj) : obj[k].path = key
\* obj[key], undefined when the object has no such property
Get(obj, key) ==
  IF HasKey(obj, key)
  THEN (CHOOSE e \in { obj[k] : k \in 1..Len(obj) } : e.path = key).content
  ELSE Undefined
\* obj[key] = value: a new key is added last, a key the object has keeps its place
Put(obj, key, value) ==
  IF HasKey(obj, key)
  THEN [ k \in 1..Len(obj) |-> IF obj[k].path = key
                               THEN [path |-> key, content |-> value]
                               ELSE obj[k] ]
  ELSE Append(obj, [path |-> key, content |-> value])
\* !x for a string or undefined
Falsy(x) == x = Undefined \/ x = ""

\* the entries of the prompts array of prompt_config.json
Profile(name, hasData, data) ==
  [isNull |-> FALSE, name |-> name, hasData |-> hasData, data |-> data]
NullProfile == [isNull |-> TRUE, name |-> Null, hasData |-> FALSE, data |-> <<>>]
Minimal == Profile("minimal", TRUE, << "ads_information" >>)
Full == Profile("full", TRUE, << "ads_information", "other", "prefs.json", "empty.json" >>)
NoData == Profile("nodata", FALSE, <<>>)
EmptyData == Profile("emptydata", TRUE, <<>>)

\* what fetch('/prompt_config.json') and response.json() can give:
\* the fetch rejects, the response is not ok, the body is not JSON, or the
\* body is the JSON value described by json and prompts
Config(fetched, json, prompts) == [fetched |-> fetched, json |-> json, prompts |-> prompts]
ConfigPool ==
  { Config("rejects", "none", <<>>),
    Config("notOk", "none", <<>>),
    Config("badJson", "none", <<>>),
    Config("ok", "null", <<>>),
    Config("ok", "noPrompts", <<>>),
    Config("ok", "promptsNotArray", <<>>),
    Config("ok", "promptsArray", <<>>),
    Config("ok", "promptsArray", << NullProfile, Minimal, Full >>),
    Config("ok", "promptsArray", << Minimal >>),
    Config("ok", "promptsArray", << Minimal, Full, NoData, EmptyData >>) }

\* loadPromptConfig(): the value of the body, or null after any error
loadPromptConfig(cfg) ==
  IF cfg.fetched = "ok" THEN [json |-> cfg.json, prompts |-> cfg.prompts]
  ELSE [json |-> "null", prompts |-> <<>>]

\* promptConfig.prompts.find(p => p.name === promptName): the entry, undefined,
\* or the TypeError of reading name of a null entry
RECURSIVE Find(_, _)
Find(prompts, promptName) ==
  IF prompts = <<>> THEN [thrown |-> FALSE, found |-> FALSE]
  ELSE IF Head(prompts).isNull THEN [thrown |-> TRUE, found |-> FALSE]
  ELSE IF Head(prompts).name = promptName
       THEN [thrown |-> FALSE, found |-> TRUE, settings |-> Head(prompts)]
       ELSE Find(Tail(prompts), promptName)

\* the return of a call that found no usable configuration
FailOpen(extractedData) ==
  [done |-> TRUE, thrown |-> FALSE,
   selectedData |-> extractedData,
   usedFiles |-> KeysOf(extractedData),
   configFound |-> FALSE,
   totalFiles |-> Len(extractedData)]
Thrown == [done |-> TRUE, thrown |-> TRUE]

\* availableFiles.filter(filePath => matchesPattern(filePath, pattern))
MatchingFiles(availableFiles, pattern) ==
  SelectSeq(availableFiles, LAMBDA filePath : matchesPattern(filePath, pattern))

\* matchingFiles.forEach(file => ...): a file is added unless selectedData
\* has a truthy value for it
RECURSIVE AddFiles(_, _, _)
AddFiles(acc, matchingFiles, extractedData) ==
  IF matchingFiles = <<>> THEN acc
  ELSE LET file == Head(matchingFiles)
           next == IF Falsy(Get(acc.selectedData, file))
                   THEN [selectedData |-> Put(acc.selectedData, file, Get(extractedData, file)),
                         usedFiles |-> Append(acc.usedFiles, file)]
                   ELSE acc
       IN AddFiles(next, Tail(matchingFiles), extractedData)

\* the loop over the patterns that ends at the first pattern with a match
RECURSIVE SelectFirstMatchOnly(_, _, _)
SelectFirstMatchOnly(acc, patterns, extractedData) ==
  IF patterns = <<>> THEN acc
  ELSE LET matchingFiles == MatchingFiles(KeysOf(extractedData), Head(patterns)) IN
       IF Len(matchingFiles) > 0
       THEN AddFiles(acc, matchingFiles, extractedData)
       ELSE SelectFirstMatchOnly(acc, Tail(patterns), extractedData)

\* for (const pattern of promptSettings.data)
RECURSIVE Select(_, _, _)
Select(acc, patterns, extractedData) ==
  IF patterns = <<>> THEN acc
  ELSE LET matchingFiles == MatchingFiles(KeysOf(extractedData), Head(patterns)) IN
       Select(IF Len(matchingFiles) > 0
              THEN AddFiles(acc, matchingFiles, extractedData)
              ELSE acc,
              Tail(patterns), extractedData)

\* selectDataForPrompt(promptName, extractedData) after loadPromptConfig()
\* has given the configuration cfg
selectDataForPrompt(promptName, extractedData, cfg) ==
  LET promptConfig == loadPromptConfig(cfg) IN
  IF promptConfig.json = "null" \/ promptConfig.json = "noPrompts"
  THEN FailOpen(extractedData)
  ELSE IF promptConfig.json = "promptsNotArray" THEN Thrown
  ELSE LET f == Find(promptConfig.prompts, promptName) IN
       IF f.thrown THEN Thrown
       ELSE IF ~f.found \/ ~f.settings.hasData THEN FailOpen(extractedData)
       ELSE LET sel == Select([selectedData |-> <<>>, usedFiles |-> <<>>],
                              f.settings.data, extractedData)
            IN [done |-> TRUE, thrown |-> FALSE,
                selectedData |-> sel.selectedData,
                usedFiles |-> sel.usedFiles,
                configFound |-> TRUE,
                totalFiles |-> Len(extractedData),
                selectedCount |-> Len(sel.usedFiles),
                patterns |-> f.settings.data]

SelectorInit ==
  /\ RunInit
  /\ SiteIdle
  /\ selIn \in [ promptName : PromptNames, extractedData : ExtractedSets ]
  /\ selConfig = NotCalled
  /\ selOut = NotCalled
  /\ chunkerIn = NotCalled
  /\ chunkerOut = NotCalled
  /\ matchIn = NotCalled
  /\ matchOut = NotCalled

\* selectDataForPrompt is called: up to the await of loadPromptConfig()
SelectDataForPromptCall ==
  /\ selConfig = NotCalled
  /\ selConfig' = [done |-> FALSE, fetching |-> TRUE]
  /\ UNCHANGED << runVars, chunkerIn, chunkerOut, matchIn, matchOut, selIn, selOut, siteVars >>

\* loadPromptConfig() settles and selectDataForPrompt runs to its end
LoadPromptConfigDone ==
  /\ selConfig = [done |-> FALSE, fetching |-> TRUE]
  /\ \E cfg \in ConfigPool :
       /\ selConfig' = [done |-> TRUE, config |-> cfg]
       /\ selOut' = selectDataForPrompt(selIn.promptName, selIn.extractedData, cfg)
  /\ UNCHANGED << runVars, chunkerIn, chunkerOut, matchIn, matchOut, selIn, siteVars >>

SelectorNext == SelectDataForPromptCall \/ LoadPromptConfigDone

SelectorSpec == SelectorInit /\ [][SelectorNext]_vars

\* ------------------------------------------------------------ properties of selectDataForPrompt

SelDone == selOut.done
\* the profile that is named promptName, when the configuration has one
Named ==
  { selConfig.config.prompts[k] : k \in
      { j \in 1..Len(selConfig.config.prompts) :
          /\ ~selConfig.config.prompts[j].isNull
          /\ selConfig.config.prompts[j].name = selIn.promptName } }
\* the configuration was fetched and parsed and holds an array of profiles
Usable == selConfig.config.fetched = "ok" /\ selConfig.config.json = "promptsArray"
IsFailOpen ==
  /\ ~selOut.thrown
  /\ selOut.configFound = FALSE
  /\ selOut.selectedData = selIn.extractedData
  /\ selOut.usedFiles = KeysOf(selIn.extractedData)

\* C16: selectDataForPrompt never throws, and when the configuration cannot
\* be fetched or parsed, is malformed or has no profile list, or holds no
\* profile named promptName, it returns configFound = false with the full
\* extracted set as selectedData and all extracted paths as usedFiles.
C16_SelectorFailsOpen ==
  SelDone =>
    /\ ~selOut.thrown
    /\ (~Usable \/ Named = {}) => IsFailOpen

\* C17: when the profile named promptName exists but its data list is
\* missing or empty, the call fails open as for a missing configuration:
\* configFound = false, the full extracted set, all extracted paths.
C17_NoPatternsFailsOpen ==
  (SelDone /\ Usable /\ \E ps \in Named : ~ps.hasData \/ ps.data = <<>>)
    => IsFailOpen

\* C18: usedFiles holds no path twice, is as long as selectedData has keys
\* (and as selectedCount says when configFound), and every path of it is a
\* key of the extracted set; also when several patterns match one file and
\* when a file's content is the empty string.
C18_UsedFilesAreTheKeys ==
  (SelDone /\ ~selOut.thrown) =>
    /\ \A j, k \in 1..Len(selOut.usedFiles) :
         j # k => selOut.usedFiles[j] # selOut.usedFiles[k]
    /\ Len(selOut.usedFiles) = Len(selOut.selectedData)
    /\ selOut.configFound => selOut.selectedCount = Len(selOut.usedFiles)
    /\ \A k \in 1..Len(selOut.usedFiles) :
         HasKey(selIn.extractedData, selOut.usedFiles[k])

\* C19: when the named profile exists with patterns, a path of the extracted
\* set is a key of selectedData exactly when one of the profile's patterns
\* matches it, and it maps to its original content.
C19_SelectedIffMatched ==
  (SelDone /\ ~selOut.thrown /\ selOut.configFound) =>
    /\ \A k \in 1..Len(selIn.extractedData) :
         LET file == selIn.extractedData[k] IN
         /\ HasKey(selOut.selectedData, file.path)
              <=> \E ps \in Named : \E n \in 1..Len(ps.data) :
                     matchesPattern(file.path, ps.data[n])
         /\ HasKey(selOut.selectedData, file.path)
              => Get(selOut.selectedData, file.path) = file.content
    /\ \A k \in 1..Len(selOut.selectedData) :
         HasKey(selIn.extractedData, selOut.selectedData[k].path)

\* profile "minimal" with the pattern ads_information selected
\* data/ads_information/prefs.json and not data/other/x.json
C19_Witness ==
  /\ SelDone
  /\ ~selOut.thrown
  /\ selOut.configFound
  /\ selIn.promptName = "minimal"
  /\ selOut.patterns = << "ads_information" >>
  /\ KeysOf(selIn.extractedData) = << "data/other/x.json", "data/ads_information/prefs.json" >>
  /\ KeysOf(selOut.selectedData) = << "data/ads_information/prefs.json" >>
  /\ Get(selOut.selectedData, "data/ads_information/prefs.json") = "{\"ads\":1}"

\* C21: for a pattern that does not end in .json the result is true exactly
\* when the normalized path starts with pattern + / or contains
\* / + pattern + /, and it is false for every path when the pattern is the
\* empty string, also for a path that begins with / or contains //.
C21_FolderPatternMatch ==
  (matchOut.done /\ ~EndsWith(normalizePath(matchIn.pattern), ".json")) =>
    LET file == normalizePath(matchIn.filePath)
        pat == normalizePath(matchIn.pattern)
    IN matchOut.result <=>
         /\ pat # ""
         /\ \/ StartsWith(file, pat \o "/")
            \/ Includes(file, "/" \o pat \o "/")

\* ------------------------------------------------------------ the proxies

\* the texts that are JSON, the value each one parses to, and whether the
\* text is what JSON.stringify gives for that value
JsonTexts ==
  { [text |-> "{\"choices\":[{\"message\":{\"content\":\"ok\"}}]}", value |-> "completion", canonical |-> TRUE],
    [text |-> "{ \"choices\": [ { \"message\": { \"content\": \"ok\" } } ] }", value |-> "completion", canonical |-> FALSE],
    [text |-> "{\"error\":{\"message\":\"Rate limit exceeded\"}}", value |-> "rateLimited", canonical |-> TRUE],
    [text |-> "{\"error\":{\"message\":\"Bad request\"}}", value |-> "badRequest", canonical |-> TRUE],
    [text |-> "{\"error\":\"API key not configured\"}", value |-> "noKey", canonical |-> TRUE],
    [text |-> "{\"error\":\"fetch failed\"}", value |-> "caught", canonical |-> TRUE] }
IsJson(text) == \E j \in JsonTexts : j.text = text
\* JSON.parse(text), for a text that is JSON
JsonParse(text) == (CHOOSE j \in JsonTexts : j.text = text).value
\* JSON.stringify(value)
JsonStringify(value) == (CHOOSE j \in JsonTexts : j.value = value /\ j.canonical).text

\* the requests a proxy receives: the implementation that receives it, the
\* HTTP method, whether the body sent is JSON, whether OPENROUTER_API_KEY is set.
\* The express server registers the route for POST only.
ProxyRequests ==
  { r \in [ impl : {"openRouterProxy", "handler", "express"},
            method : {"POST", "OPTIONS", "GET", "PUT"},
            bodyIsJson : BOOLEAN,
            hasKey : BOOLEAN ] :
      r.impl = "express" => r.method = "POST" }

\* what the fetch of the model API gives: a response, or a rejection
UpstreamAnswers ==
  { [kind |-> "response", status |-> 200, body |-> "{\"choices\":[{\"message\":{\"content\":\"ok\"}}]}"],
    [kind |-> "response", status |-> 200, body |-> "{ \"choices\": [ { \"message\": { \"content\": \"ok\" } } ] }"],
    [kind |-> "response", status |-> 429, body |-> "{\"error\":{\"message\":\"Rate limit exceeded\"}}"],
    [kind |-> "response", status |-> 400, body |-> "{\"error\":{\"message\":\"Bad request\"}}"],
    [kind |-> "response", status |-> 502, body |-> "<html>Bad Gateway</html>"],
    [kind |-> "rejected", status |-> 0, body |-> ""] }

\* res.status(status).send/json(body); cors: Access-Control-Allow-Origin is set
Answer(status, body, cors) == [done |-> TRUE, status |-> status, body |-> body, cors |-> cors]
\* the implementations that set the CORS headers: res.set of the Cloud
\* Function, app.use(cors()) of the express server
SetsCors(impl) == impl \in {"openRouterProxy", "express"}

\* what the implementation does before any fetch: an answer, or "forward"
BeforeFetch(r) ==
  IF r.impl = "openRouterProxy" /\ r.method = "OPTIONS"
    THEN Answer(204, "", TRUE)
  ELSE IF r.impl = "openRouterProxy" /\ r.method # "POST"
    THEN Answer(405, "Method Not Allowed", TRUE)
  ELSE IF ~r.hasKey
    THEN Answer(500, JsonStringify("noKey"), SetsCors(r.impl))
  ELSE IF r.impl = "handler" /\ ~r.bodyIsJson
    THEN Answer(500, JsonStringify("caught"), FALSE)
  ELSE [done |-> FALSE]

\* the status given with the data of the model API: the Cloud Function
\* answers res.status(200), the other two the status of the response
RelayedStatus(impl, u) == IF impl = "openRouterProxy" THEN 200 ELSE u.status

\* what the implementation answers once the fetch has settled
AfterFetch(r, u) ==
  IF u.kind = "rejected" \/ ~IsJson(u.body)
  THEN Answer(500, JsonStringify("caught"), SetsCors(r.impl))
  ELSE Answer(RelayedStatus(r.impl, u), JsonStringify(JsonParse(u.body)), SetsCors(r.impl))

ProxyInit ==
  /\ RunInit
  /\ CallsIdle
  /\ LoaderIdle
  /\ ProcIdle
  /\ PageIdle
  /\ proxyReq \in ProxyRequests
  /\ proxyUp = NotCalled
  /\ proxyRes = NotCalled

\* the function is invoked with the request and runs to its first await or
\* to its return
ProxyReceive ==
  /\ ~proxyRes.done
  /\ proxyUp = NotCalled
  /\ LET before == BeforeFetch(proxyReq) IN
     IF before.done
     THEN proxyRes' = before /\ UNCHANGED proxyUp
     ELSE proxyUp' = [done |-> FALSE, sent |-> TRUE] /\ UNCHANGED proxyRes
  /\ UNCHANGED << runVars, callVars, loaderVars, procVars, pageVars, proxyReq >>

\* the fetch of the model API settles and the function answers
UpstreamSettles ==
  /\ proxyUp = [done |-> FALSE, sent |-> TRUE]
  /\ \E u \in UpstreamAnswers :
       /\ proxyUp' = [done |-> TRUE, sent |-> TRUE, answer |-> u]
       /\ proxyRes' = AfterFetch(proxyReq, u)
  /\ UNCHANGED << runVars, callVars, loaderVars, procVars, pageVars, proxyReq >>

ProxyNext == ProxyReceive \/ UpstreamSettles

ProxySpec == ProxyInit /\ [][ProxyNext]_vars

\* a request was sent to the model API
Forwarded == proxyUp # NotCalled

\* C22: for every POST request that a proxy forwards, the status code and
\* the body it returns are those of the model API's response, an upstream
\* 4xx/5xx being relayed as that same status, in each implementation.
C22_UpstreamRelayed ==
  ( /\ proxyRes.done
    /\ proxyReq.method = "POST"
    /\ proxyUp.done
    /\ proxyUp.answer.kind = "response" )
    => /\ proxyRes.status = proxyUp.answer.status
       /\ IsJson(proxyRes.body)
       /\ IsJson(proxyUp.answer.body)
       /\ JsonParse(proxyRes.body) = JsonParse(proxyUp.answer.body)

\* C23: a request whose method is neither POST nor OPTIONS is answered with
\* 405, an OPTIONS preflight is answered with the CORS allow headers, and in
\* both cases no request is sent to the model API.
C23_OnlyPostIsForwarded ==
  proxyReq # NotCalled /\ proxyReq.method # "POST" =>
    /\ ~Forwarded
    /\ proxyRes.done =>
         IF proxyReq.method = "OPTIONS" THEN proxyRes.cors
         ELSE proxyRes.status = 405

\* ------------------------------------------------------------ loadPrompt alone

\* what langfuseManager.getPrompt(promptName) gives: a prompt whose prompt
\* field is a string, an object with content, an object without content, or
\* falsy; null (not found); a TypeError because this.client is still null; a
\* rejection of the store
StoreKinds ==
  { "string", "chat", "object", "emptyPrompt", "null", "uninitialized", "error" }
\* what the fetch of /profiler_prompt.txt gives
LocalKinds == { "ok", "empty", "notOk", "rejects" }
LoaderNames == { "facebook-profiler", "psychological", "marketing", "absent" }

StoreThrows(store) == store \in { "uninitialized", "error" }
\* langfusePrompt && langfusePrompt.prompt
StoreHasPrompt(store) == store \in { "string", "chat", "object" }
\* promptContent of the store's prompt
PromptContent(store) ==
  IF store = "string" THEN "store prompt"
  ELSE IF store = "chat" THEN "store chat content"
  ELSE "{\"role\":\"system\"}"
StoreError(store) ==
  IF store = "uninitialized" THEN "Cannot read properties of null (reading 'prompt')"
  ELSE "prompt store error"
LocalThrows(local) == local \in { "notOk", "rejects" }
LocalText(local) == IF local = "ok" THEN "local prompt" ELSE ""
LocalError(local) ==
  IF local = "notOk" THEN "Failed to load fallback prompt: Not Found"
  ELSE "Failed to fetch"

\* loadPrompt has returned prompt, which is this.prompt now
Loaded(p, usedLocal) ==
  [done |-> TRUE, ok |-> TRUE, prompt |-> p, error |-> Null, local |-> usedLocal]
\* loadPrompt has thrown error; this.prompt is what it was
LoadFailed(error, usedLocal) ==
  [done |-> TRUE, ok |-> FALSE, prompt |-> loaderIn.thisPrompt, error |-> error,
   local |-> usedLocal]

LoaderInit ==
  /\ RunInit
  /\ CallsIdle
  /\ ProxyIdle
  /\ ProcIdle
  /\ PageIdle
  /\ loaderIn \in [ promptName : LoaderNames, thisPrompt : { Null, "earlier prompt" } ]
  /\ loaderAt = NotCalled
  /\ loaderOut = NotCalled

\* loadPrompt(promptName) is called: up to await langfuseManager.getPrompt
LoadPromptCall ==
  /\ loaderAt = NotCalled
  /\ loaderAt' = [done |-> FALSE, at |-> "store"]
  /\ UNCHANGED << runVars, callVars, proxyVars, procVars, pageVars, loaderIn, loaderOut >>

\* getPrompt settles: the store's prompt is taken, or the error is rethrown,
\* or the local file is fetched
GetPromptSettles ==
  /\ loaderAt = [done |-> FALSE, at |-> "store"]
  /\ \E store \in StoreKinds :
       IF StoreThrows(store)
       THEN /\ loaderAt' = [done |-> TRUE, store |-> store, local |-> "none"]
            /\ loaderOut' = LoadFailed(StoreError(store), FALSE)
       ELSE IF StoreHasPrompt(store)
       THEN /\ loaderAt' = [done |-> TRUE, store |-> store, local |-> "none"]
            /\ loaderOut' = Loaded(PromptContent(store), FALSE)
       ELSE /\ loaderAt' = [done |-> FALSE, at |-> "local", store |-> store]
            /\ UNCHANGED loaderOut
  /\ UNCHANGED << runVars, callVars, proxyVars, procVars, pageVars, loaderIn >>

\* the fetch of the local file settles
LocalFetchSettles ==
  /\ ~loaderAt.done
  /\ loaderAt # NotCalled
  /\ loaderAt.at = "local"
  /\ \E local \in LocalKinds :
       /\ loaderAt' = [done |-> TRUE, store |-> loaderAt.store, local |-> local]
       /\ loaderOut' = IF LocalThrows(local) THEN LoadFailed(LocalError(local), TRUE)
                       ELSE Loaded(LocalText(local), TRUE)
  /\ UNCHANGED << runVars, callVars, proxyVars, procVars, pageVars, loaderIn >>

LoaderNext == LoadPromptCall \/ GetPromptSettles \/ LocalFetchSettles

LoaderSpec == LoaderInit /\ [][LoaderNext]_vars

\* C24: loadPrompt falls back to the local prompt file whenever the named
\* prompt is unavailable from the store, whether the store returns no prompt
\* or the lookup itself fails (uninitialized client, store error), and it
\* fails only if the local file cannot be loaded either.
C24_FallbackWheneverUnavailable ==
  (loaderOut.done /\ ~StoreHasPrompt(loaderAt.store)) =>
    /\ loaderOut.local
    /\ ~loaderOut.ok => LocalThrows(loaderAt.local)

\* ------------------------------------------------------------ properties of a failing prompt load

\* the chunks whose generateProfile ended by a throw of loadPrompt
LoadFailures == { k \in Indices : outcome[k].st = "failed" /\ outcome[k].load }

\* C29: when no prompt is loaded and loading it fails, generateProfile throws
\* without having sent a request and without a retry or a backoff delay; a
\* run in which every prompt load fails ends with success = false after zero
\* requests.
C29_LoadFailureSendsNothing ==
  /\ \A k \in LoadFailures : attempts[k] = 0
  /\ (lastThrown # Null /\ chunkIndex \in LoadFailures /\ pc = "done")
       => retries = 0 /\ sleeps = <<>>
  /\ (Done /\ NumChunks > 0 /\ LoadFailures = Indices)
       => /\ result.success = FALSE
          /\ inflight = 0
          /\ \A k \in ChunkIndices : attempts[k] = 0

\* a run of three chunks has ended after three failed prompt loads
C29_Witness ==
  /\ Done
  /\ NumChunks = 3
  /\ LoadFailures = Indices
  /\ loads = 3
  /\ result.success = FALSE
  /\ failedChunks = << 1, 2, 3 >>

\* ------------------------------------------------------------ the order and the size of the chunks

\* the place pl comes before the place ql when the chunks are read in order
Before(pl, ql) == pl[1] < ql[1] \/ (pl[1] = ql[1] /\ pl[2] < ql[2])
\* the index in the input of the file whose entry is at the place pl
InputIndex(pl) ==
  CHOOSE k \in 1..Len(chunkerIn.files) : chunkerIn.files[k].name = EntryAt(pl).name

\* C26: reading the chunks in order, entry by entry, the content lengths of
\* the files never decrease, and files of equal content length keep the
\* order they had in the input.
C26_AscendingStableOrder ==
  chunkerOut.done =>
    \A pl, ql \in Places :
      Before(pl, ql) =>
        LET f == chunkerIn.files[InputIndex(pl)]
            g == chunkerIn.files[InputIndex(ql)]
        IN /\ f.len <= g.len
           /\ f.len = g.len => InputIndex(pl) < InputIndex(ql)

\* b.json was given before a.json, both of ten characters, behind a longer
\* file: the chunks hold b.json, a.json and then the longer file
C26_Witness ==
  /\ chunkerOut.done
  /\ Len(chunkerIn.files) = 3
  /\ chunkerIn.files[1].name = "page.html"
  /\ chunkerIn.files[2].name = "b.json"
  /\ chunkerIn.files[3].name = "a.json"
  /\ chunkerIn.maxChunkSize = MAX_CHUNK_SIZE
  /\ chunkerIn.maxFilesPerChunk = 2
  /\ Len(chunkerOut.chunks) = 2
  /\ chunkerOut.chunks[1][1].name = "b.json"
  /\ chunkerOut.chunks[1][2].name = "a.json"
  /\ chunkerOut.chunks[2][1].name = "page.html"

\* a file whose entry alone is longer than MAX_CHUNK_SIZE
Oversized(f) == ~FormatThrows(f) /\ FileEntry(f).len > chunkerIn.maxChunkSize

\* C27: every chunk returned holds at least one file entry, no empty chunk
\* is emitted, also when the first file processed has an entry longer than
\* MAX_CHUNK_SIZE: a single oversized file yields exactly one chunk.
C27_NoEmptyChunk ==
  chunkerOut.done =>
    /\ \A c \in 1..Len(chunkerOut.chunks) : Len(chunkerOut.chunks[c]) >= 1
    /\ (Len(chunkerIn.files) = 1 /\ Oversized(chunkerIn.files[1]))
         => Len(chunkerOut.chunks) = 1

\* ------------------------------------------------------------ ProcessingPage

\* the most selectDataForPrompt calls of the page that are pending at a time
MaxPending == 3

\* the values of the profile selector of the page
ProcPrompts == { "all", "minimal", "full", "absent" }
\* the extractedData prop and the configuration the calls of the page fetch
ProcData ==
  << [path |-> "data/ads_information/prefs.json", content |-> "{\"ads\":1}"],
     [path |-> "data/other/x.json", content |-> "[1,2]"] >>
ProcConfig == Config("ok", "promptsArray", << Minimal, Full >>)

\* allDataSelection of the page
AllDataSelection ==
  [done |-> TRUE, thrown |-> FALSE,
   selectedData |-> ProcData,
   usedFiles |-> KeysOf(ProcData),
   configFound |-> FALSE,
   totalFiles |-> Len(ProcData),
   selectedCount |-> Len(ProcData)]
\* what selectData gives to setDataSelection for the profile name
SelectionFor(name) ==
  IF name = "all" THEN AllDataSelection
  ELSE selectDataForPrompt(name, ProcData, ProcConfig)

\* the effect of lines 32-70 for currentPrompt = name: selectData() up to its
\* await, or to its end for 'all'
SelectDataEffect(name) ==
  IF name = "all"
  THEN /\ procSelection' = AllDataSelection
       /\ UNCHANGED procPending
  ELSE /\ procPending' = Append(procPending, name)
       /\ UNCHANGED procSelection

\* the page is mounted with a non-empty extractedData: useState(selectedPrompt
\* || 'all') and the first run of the effect
ProcInit ==
  /\ RunInit
  /\ CallsIdle
  /\ ProxyIdle
  /\ LoaderIdle
  /\ PageIdle
  /\ procPrompt \in ProcPrompts
  /\ IF procPrompt = "all"
     THEN procPending = <<>> /\ procSelection = AllDataSelection
     ELSE procPending = << procPrompt >> /\ procSelection = NotCalled

\* the user picks another profile: setCurrentPrompt and the effect it triggers
ChangePrompt ==
  /\ procPrompt # Null
  /\ Len(procPending) < MaxPending
  /\ \E name \in ProcPrompts \ {procPrompt} :
       /\ procPrompt' = name
       /\ SelectDataEffect(name)
  /\ UNCHANGED << runVars, callVars, proxyVars, loaderVars, pageVars >>

\* one of the pending calls resolves, in any order: the rest of selectData,
\* setDataSelection(selection)
SelectionResolves ==
  /\ \E k \in 1..Len(procPending) :
       /\ procSelection' = SelectionFor(procPending[k])
       /\ procPending' = SubSeq(procPending, 1, k - 1)
                           \o SubSeq(procPending, k + 1, Len(procPending))
  /\ UNCHANGED << runVars, callVars, proxyVars, loaderVars, pageVars, procPrompt >>

ProcNext == ChangePrompt \/ SelectionResolves

ProcSpec == ProcInit /\ [][ProcNext]_vars

\* C28: when the profile is changed while an earlier selectDataForPrompt call
\* is pending, then once all pending calls have resolved dataSelection is the
\* selection computed for the profile that is selected: a result for a stale
\* profile never overwrites a newer one, whatever order the calls resolve in.
C28_SelectionIsForCurrentPrompt ==
  (procPrompt # Null /\ procPending = <<>>) => procSelection = SelectionFor(procPrompt)

\* ------------------------------------------------------------ ProfileAnalysisPage

\* the most executions of runAllPrompts that are followed at a time
MaxRuns == 2

\* the props of the page: the prompts array by its names, and whether
\* jsonData has a key
PagePropsPool ==
  [ prompts : { <<>>, << "minimal" >>, << "minimal", "full" >> },
    hasData : BOOLEAN ]

\* useState(false), useState([]), useState(null), useState('')
FirstRender ==
  [isAnalyzing |-> FALSE, analysisResults |-> <<>>, error |-> Null, currentPrompt |-> ""]
FreeRun == [st |-> "free", prompts |-> <<>>, i |-> 0, results |-> <<>>]
InProgress == { r \in 1..Len(pageRuns) : pageRuns[r].st # "free" }
FreeSlots == { r \in 1..Len(pageRuns) : pageRuns[r].st = "free" }
\* the condition of the effect, which is also the negation of the two early
\* returns of runAllPrompts
HasWork(props) == Len(props.prompts) > 0 /\ props.hasData

\* runAllPrompts() with the props of its closure, up to its first await
RunAllPrompts(props) ==
  IF ~props.hasData
  THEN /\ pageState' = [pageState EXCEPT !.error = "No data available for analysis"]
       /\ UNCHANGED pageRuns
  ELSE IF Len(props.prompts) = 0
  THEN /\ pageState' = [pageState EXCEPT !.error = "No prompts available"]
       /\ UNCHANGED pageRuns
  ELSE /\ FreeSlots # {}
       /\ LET r == CHOOSE s \in FreeSlots : \A t \in FreeSlots : s <= t IN
          pageRuns' = [pageRuns EXCEPT ![r] =
                         [st |-> "select", prompts |-> props.prompts, i |-> 1,
                          results |-> <<>>]]
       /\ pageState' = [isAnalyzing |-> TRUE, analysisResults |-> <<>>,
                        error |-> Null, currentPrompt |-> props.prompts[1]]

\* the effect of lines 115-119 after a render with new dependencies
AutoStart(props) ==
  IF HasWork(props) THEN RunAllPrompts(props)
  ELSE UNCHANGED << pageState, pageRuns >>

PageInit ==
  /\ RunInit
  /\ CallsIdle
  /\ ProxyIdle
  /\ LoaderIdle
  /\ ProcIdle
  /\ pageProps = NotCalled
  /\ pageState = FirstRender
  /\ pageRuns = [r \in 1..MaxRuns |-> FreeRun]
  /\ pageEnded = NotCalled

PageUnchanged == UNCHANGED << runVars, callVars, proxyVars, loaderVars, procVars >>

\* the page is mounted: the first render and its effect
PageMount ==
  /\ pageProps = NotCalled
  /\ \E props \in PagePropsPool :
       /\ pageProps' = props
       /\ AutoStart(props)
  /\ pageEnded' = NotCalled
  /\ PageUnchanged

\* the parent renders the page with another prompts or jsonData
PropsChange ==
  /\ pageProps # NotCalled
  /\ \E props \in PagePropsPool \ {pageProps} :
       /\ pageProps' = props
       /\ AutoStart(props)
  /\ pageEnded' = NotCalled
  /\ PageUnchanged

\* a click on Retry Analysis, which is rendered while error is set
ClickRetry ==
  /\ pageProps # NotCalled
  /\ pageState.error # Null
  /\ RunAllPrompts(pageProps)
  /\ pageEnded' = NotCalled
  /\ UNCHANGED pageProps
  /\ PageUnchanged

\* the catch and the finally block of the execution r
RunThrows(r, message) ==
  /\ pageState' = [pageState EXCEPT !.error = message,
                                    !.isAnalyzing = FALSE,
                                    !.currentPrompt = ""]
  /\ pageRuns' = [pageRuns EXCEPT ![r] = FreeRun]
  /\ pageEnded' = [done |-> TRUE, threw |-> TRUE, prompts |-> pageRuns[r].prompts]

\* await selectDataForPrompt(prompt.name, jsonData) settles
PageSelectSettles ==
  /\ \E r \in InProgress :
       /\ pageRuns[r].st = "select"
       /\ \E ok \in BOOLEAN :
            IF ok
            THEN /\ pageRuns' = [pageRuns EXCEPT ![r].st = "load"]
                 /\ pageEnded' = NotCalled
                 /\ UNCHANGED pageState
            ELSE RunThrows(r, "promptConfig.prompts.find is not a function")
  /\ UNCHANGED pageProps
  /\ PageUnchanged

\* await analyzer.loadPrompt(prompt.name) settles
PageLoadSettles ==
  /\ \E r \in InProgress :
       /\ pageRuns[r].st = "load"
       /\ \E ok \in BOOLEAN :
            IF ok
            THEN /\ pageRuns' = [pageRuns EXCEPT ![r].st = "analyze"]
                 /\ pageEnded' = NotCalled
                 /\ UNCHANGED pageState
            ELSE RunThrows(r, "prompt store error")
  /\ UNCHANGED pageProps
  /\ PageUnchanged

\* await analyzer.analyzeProfile(selectedData) settles: the entry is pushed,
\* and the loop goes on or the execution ends
PageAnalyzeSettles ==
  /\ \E r \in InProgress :
       /\ pageRuns[r].st = "analyze"
       /\ \E success \in BOOLEAN :
            LET run == pageRuns[r]
                results == Append(run.results,
                                  [promptName |-> run.prompts[run.i],
                                   failed |-> ~success])
            IN IF run.i < Len(run.prompts)
               THEN /\ pageRuns' = [pageRuns EXCEPT ![r] =
                                      [run EXCEPT !.st = "select", !.i = run.i + 1,
                                                  !.results = results]]
                    /\ pageState' = [pageState EXCEPT
                                       !.currentPrompt = run.prompts[run.i + 1]]
                    /\ pageEnded' = NotCalled
               ELSE /\ pageRuns' = [pageRuns EXCEPT ![r] = FreeRun]
                    /\ pageState' = [pageState EXCEPT !.analysisResults = results,
                                                      !.isAnalyzing = FALSE,
                                                      !.currentPrompt = ""]
                    /\ pageEnded' = [done |-> TRUE, threw |-> FALSE,
                                     prompts |-> run.prompts]
  /\ UNCHANGED pageProps
  /\ PageUnchanged

PageNext ==
  \/ PageMount
  \/ PropsChange
  \/ ClickRetry
  \/ PageSelectSettles
  \/ PageLoadSettles
  \/ PageAnalyzeSettles

PageSpec == PageInit /\ [][PageNext]_vars

\* C25: at most one analysis run is in progress at any time: while a run
\* started by runAllPrompts has not finished no second run starts, under any
\* sequence of prop changes, effect re-executions and button clicks.
C25_AtMostOneRun == Cardinality(InProgress) <= 1

\* the names of the entries of analysisResults, in their order
ResultNames == [ k \in 1..Len(pageState.analysisResults) |->
                   pageState.analysisResults[k].promptName ]

\* C30: every execution of runAllPrompts ends with isAnalyzing = false and an
\* empty currentPrompt, and at that point either analysisResults holds one
\* entry per prompt in prompt order (a failed analysis being an entry), or a
\* step threw, error is set and analysisResults is empty.
C30_RunEndsClean ==
  pageEnded.done =>
    /\ pageState.isAnalyzing = FALSE
    /\ pageState.currentPrompt = ""
    /\ IF pageEnded.threw
       THEN pageState.error # Null /\ pageState.analysisResults = <<>>
       ELSE ResultNames = pageEnded.prompts

====
